---- MODULE Spec2Model ----
(***************************************************************************)
(* A model of genhub's FlyBase@NCBI genome database connector              *)
(* (genhub/ncbi_flybase.py, class FlyBaseDB).                              *)
(*                                                                         *)
(* Text is modelled by TLA+ strings; the character at position i of s is   *)
(* SubSeq(s, i, i).  Positions are 1-based.                                *)
(***************************************************************************)
EXTENDS Integers, Sequences, FiniteSets, TLC

VARIABLES
    instream,   \* format_fasta: the lines the iteration over instream yields
    lineno,     \* format_fasta: index of the next line of instream to read
    outstream,  \* format_fasta: the text of each print call, in call order
    config,     \* the configuration mapping: a function from its keys
    db,         \* the connector: "none", "ready" (constructed) or "failed"
    raised,     \* the exception the last operation raised, "" when none
    call,       \* the last URL property read and the list it returned
    dlpc,       \* download_gff3: position in the method
    command,    \* download_gff3: the argument list of the merge command
    downloaded, \* download_gff3: the url_download calls completed, in order
    merged,     \* download_gff3: the argument list the merge tool was run with
    logged,     \* download_gff3: the messages printed to logstream
    fpc,        \* format_gff3: position in the method
    excludefile,\* format_gff3: the name of the temporary filter file
    tmpfiles,   \* the temporary files that exist
    commands,   \* format_gff3: the command line handed to the shell
    ran,        \* format_gff3: the stages the shell ran, with exit statuses
    returncode, \* format_gff3: proc.returncode
    printed     \* format_gff3: the lines printed to logstream

fastaVars == <<instream, lineno, outstream>>

connVars == <<config, db, raised, call>>

dlVars == <<dlpc, command, downloaded, merged, logged>>

fmtVars == <<fpc, excludefile, tmpfiles, commands, ran, returncode, printed>>

vars == <<instream, lineno, outstream, config, db, raised, call,
          dlpc, command, downloaded, merged, logged,
          fpc, excludefile, tmpfiles, commands, ran, returncode, printed>>

(***************************************************************************)
(* Bounds of the model                                                     *)
(***************************************************************************)
\* the input streams of format_fasta are made of at most MaxFrags fragments
MaxFrags == 5

\* a configuration lists at most MaxAcc accessions
MaxAcc == 3

(***************************************************************************)
(* The parts of the state an operation does not use, before it runs        *)
(***************************************************************************)
FastaIdle ==
    /\ instream = <<>>
    /\ lineno = 1
    /\ outstream = <<>>

NoCall == [op |-> "", value |-> <<>>]

ConnIdle ==
    /\ config = <<>>
    /\ db = "none"
    /\ raised = ""
    /\ call = NoCall

DlIdle ==
    /\ dlpc = "idle"
    /\ command = <<>>
    /\ downloaded = <<>>
    /\ merged = <<>>
    /\ logged = <<>>

FmtIdle ==
    /\ fpc = "idle"
    /\ excludefile = ""
    /\ tmpfiles = {}
    /\ commands = ""
    /\ ran = <<>>
    /\ returncode = 0
    /\ printed = <<>>

(***************************************************************************)
(* Text helpers                                                            *)
(***************************************************************************)
Max(S) == CHOOSE x \in S : \A y \in S : y <= x

CharAt(s, i) == SubSeq(s, i, i)

\* str.startswith(lit), and the same test at position p (a literal of a regex)
LitAt(s, p, lit) ==
    /\ p >= 1
    /\ p + Len(lit) - 1 <= Len(s)
    /\ SubSeq(s, p, p + Len(lit) - 1) = lit

StartsWith(s, lit) == LitAt(s, 1, lit)

\* the character classes of the pattern: \d, \s (so \S) and [^\|]
IsDigit(c) == c \in {"0", "1", "2", "3", "4", "5", "6", "7", "8", "9"}

IsSpace(c) == c \in {" ", "\t", "\n", "\r", "\f"}

IsNonSpace(c) == ~IsSpace(c)

IsNotPipe(c) == c # "|"

\* The last position of the longest run of characters of a class that
\* starts at p (p - 1 when the run is empty): a greedy quantifier.
InClass(c, class) ==
    CASE class = "\\d" -> IsDigit(c)
      [] class = "\\S" -> IsNonSpace(c)
      [] class = "[^\\|]" -> IsNotPipe(c)
      [] class = "." -> c # "\n"

RunEnd(s, p, class) ==
    Max({p - 1}
        \cup {e \in p..Len(s) : \A j \in p..e : InClass(CharAt(s, j), class)})

(***************************************************************************)
(* format_fasta: the header pattern and its substitution                   *)
(*   pattern = '>gi\|\d+\|(ref|gb)\|([^\|]+)\S+'                          *)
(*   line = re.sub(pattern, '>\g<2>', line)                                *)
(***************************************************************************)
\* The position at which group 2 starts when '>gi\|\d+\|(ref|gb)\|' matches
\* at p, and 0 when it does not.  \d+ is greedy and is followed by '|', which
\* is no digit, so only the longest run of digits can match.
PrefixEnd(s, p) ==
    LET d == RunEnd(s, p + 4, "\\d")
    IN  IF LitAt(s, p, ">gi|") /\ d >= p + 4 /\ LitAt(s, d + 1, "|")
        THEN IF LitAt(s, d + 2, "ref|") THEN d + 6
             ELSE IF LitAt(s, d + 2, "gb|") THEN d + 5
             ELSE 0
        ELSE 0

\* The positions at which \S+ can start once '([^\|]+)' has matched from q:
\* group 2 takes at least one character and at most the whole run of
\* characters other than '|', and \S+ needs a character that is no whitespace.
TailStarts(s, q) ==
    {k \in (q + 1)..(RunEnd(s, q, "[^\\|]") + 1) :
        k <= Len(s) /\ IsNonSpace(CharAt(s, k))}

\* TailEnd with '.*' in the place of '\S+': the rest of the header is taken,
\* up to the line terminator.
TailEndRestOfLine(s, k) == RunEnd(s, k, ".")

\* The last position \S+ matches when it starts at k: greedy, and nothing
\* follows it in the pattern.
TailEnd(s, k) == RunEnd(s, k, "\\S")

NoMatch == [found |-> FALSE]

\* MatchAt for the pattern without its final '\S+': the match ends with the
\* longest group 2.
MatchAtNoTail(s, p) ==
    LET q == PrefixEnd(s, p)
        r == RunEnd(s, q, "[^\\|]")
    IN  IF q = 0 \/ r < q THEN NoMatch
        ELSE [found |-> TRUE, group2 |-> SubSeq(s, q, r), last |-> r]

\* The match of the whole pattern that starts at p: group 2 is greedy, so the
\* regex engine gives characters back one at a time until \S+ can start, and
\* the first success is the largest start of \S+.
MatchAt(s, p) ==
    LET q == PrefixEnd(s, p)
    IN  IF q = 0 \/ TailStarts(s, q) = {} THEN NoMatch
        ELSE LET k == Max(TailStarts(s, q))
             IN  [found |-> TRUE, group2 |-> SubSeq(s, q, k - 1),
                  last |-> TailEnd(s, k)]

\* The replacement template '>\g<2>'
Template(m) == ">" \o m.group2

\* re.sub from position p on: the leftmost match is replaced and the scan goes
\* on after it; a character that starts no match is copied.
RECURSIVE SubFrom(_, _)
SubFrom(s, p) ==
    IF p > Len(s) THEN ""
    ELSE LET m == MatchAt(s, p)
         IN  IF m.found THEN Template(m) \o SubFrom(s, m.last + 1)
             ELSE CharAt(s, p) \o SubFrom(s, p + 1)

ReSub(s) == SubFrom(s, 1)

\* FormatLine without the test line.startswith('>').
FormatLineUnguarded(line) == ReSub(line)

\* The body of the loop of format_fasta: what is printed for one line.
FormatLine(line) == IF StartsWith(line, ">") THEN ReSub(line) ELSE line

(***************************************************************************)
(* The connector: construction and the URL properties                      *)
(***************************************************************************)
\* self.specbase
specbase == "ftp://ftp.ncbi.nih.gov/genomes/Drosophila_melanogaster/RELEASE_5_48"

Accessions ==
    {"CHR_X/NC_004354", "CHR_2/NT_033778", "CHR_2/NT_033779", "CHR_3/NT_033778"}

RECURSIVE ListsUpTo(_, _)
ListsUpTo(S, n) ==
    IF n = 0 THEN {<<>>}
    ELSE LET shorter == ListsUpTo(S, n - 1)
         IN  shorter \cup {Append(l, x) : l \in shorter, x \in S}

AccessionLists == ListsUpTo(Accessions, MaxAcc)

\* The configurations: a mapping with any of the keys source, species and
\* accessions.
Configs ==
    {[k \in keys |->
         CASE k = "source" -> src
           [] k = "species" -> "Drosophila melanogaster"
           [] k = "accessions" -> accs] :
        keys \in SUBSET {"source", "species", "accessions"},
        src \in {"ncbi_flybase", "ncbi"},
        accs \in AccessionLists}

ConnInit ==
    /\ config \in Configs
    /\ db = "none"
    /\ raised = ""
    /\ call = NoCall
    /\ FastaIdle
    /\ DlIdle
    /\ FmtIdle

\* The exception __init__ raises for a configuration, "" when it returns:
\* self.config['source'] is a subscript, the two asserts follow.
InitRaises(conf) ==
    IF "source" \notin DOMAIN conf THEN "KeyError"
    ELSE IF conf["source"] # "ncbi_flybase" THEN "AssertionError"
    ELSE IF "species" \notin DOMAIN conf THEN "AssertionError"
    ELSE ""

\* FlyBaseDB(label, conf)
Construct ==
    /\ db = "none"
    /\ raised' = InitRaises(config)
    /\ db' = IF InitRaises(config) = "" THEN "ready" ELSE "failed"
    /\ UNCHANGED <<config, call, fastaVars, dlVars, fmtVars>>

\* urls.append(url) with the list put together back to front
AddUrlInFront(urls, url) == <<url>> \o urls

\* urls.append(url)
AddUrl(urls, url) == Append(urls, url)

\* The loop of the three URL properties over self.config['accessions']:
\* url = '%s/%s<ext>' % (self.specbase, acc); urls.append(url)
RECURSIVE UrlLoop(_, _, _)
UrlLoop(urls, accs, ext) ==
    IF accs = <<>> THEN urls
    ELSE UrlLoop(AddUrl(urls, specbase \o "/" \o Head(accs) \o ext),
                 Tail(accs), ext)

gdnaurl(conf) == UrlLoop(<<>>, conf["accessions"], ".fna")

gff3url(conf) == UrlLoop(<<>>, conf["accessions"], ".gff")

proturl(conf) == UrlLoop(<<>>, conf["accessions"], ".faa")

\* Reading a URL property of a constructed connector: the subscript
\* self.config['accessions'] raises KeyError when the key is absent.
ReadProperty(op, value) ==
    /\ db = "ready"
    /\ IF "accessions" \in DOMAIN config
       THEN raised' = "" /\ call' = [op |-> op, value |-> value]
       ELSE raised' = "KeyError" /\ call' = [op |-> op, value |-> <<>>]
    /\ UNCHANGED <<config, db, fastaVars, dlVars, fmtVars>>

ReadGdnaurl == ReadProperty("gdnaurl", gdnaurl(config))

ReadGff3url == ReadProperty("gff3url", gff3url(config))

ReadProturl == ReadProperty("proturl", proturl(config))

ConnNext == Construct \/ ReadGdnaurl \/ ReadGff3url \/ ReadProturl

SpecConn == ConnInit /\ [][ConnNext]_vars

(***************************************************************************)
(* Properties of the connector                                             *)
(***************************************************************************)
ExtensionOf(op) ==
    CASE op = "gdnaurl" -> ".fna" [] op = "gff3url" -> ".gff"
      [] op = "proturl" -> ".faa"

\* C1: for a configuration with at least one accession, the list a URL
\* property returns is as long as the accession list and its i-th entry is
\* <base>/<accession i> with the property's extension.
C1_UrlsAligned ==
    (call.op # "" /\ raised = "" /\ Len(config["accessions"]) >= 1) =>
        /\ Len(call.value) = Len(config["accessions"])
        /\ \A i \in 1..Len(call.value) :
            call.value[i] =
                specbase \o "/" \o config["accessions"][i] \o ExtensionOf(call.op)

C1_Witness ==
    /\ call.op = "gff3url"
    /\ raised = ""
    /\ config["accessions"] = <<"CHR_X/NC_004354", "CHR_2/NT_033778">>
    /\ call.value[2] =
        "ftp://ftp.ncbi.nih.gov/genomes/Drosophila_melanogaster/RELEASE_5_48/CHR_2/NT_033778.gff"

\* C7: a connector is never obtained from a configuration with another
\* source tag or without the species or accessions key, so that no URL
\* property is the first to find a key missing.
C7_ConstructionValidates ==
    /\ db = "ready" =>
        /\ {"source", "species", "accessions"} \subseteq DOMAIN config
        /\ config["source"] = "ncbi_flybase"
    /\ call.op # "" => raised = ""

(***************************************************************************)
(* download_gff3                                                           *)
(***************************************************************************)
\* self.dbdir and self.gff3path of the connector labelled Dmel in the
\* working directory '.'
dbdir == "./Dmel"

gff3path == "./Dmel/dmel-5.48-ncbi.gff3.gz"

\* os.path.basename: what follows the last '/'
Basename(path) ==
    LET slashes == {i \in 1..Len(path) : CharAt(path, i) = "/"}
    IN  IF slashes = {} THEN path
        ELSE SubSeq(path, Max(slashes) + 1, Len(path))

\* tempout = '%s/%s.gff.gz' % (self.dbdir, os.path.basename(acc))
TempOut(acc) == dbdir \o "/" \o Basename(acc) \o ".gff.gz"

\* command = ['gt', 'gff3', '-sort', '-tidy', '-force', '-gzip', '-o', gff3path]
GtCommand == <<"gt", "gff3", "-sort", "-tidy", "-force", "-gzip", "-o", gff3path>>

\* the log message of download_gff3
DownloadMessage(conf) ==
    "[GenHub: " \o conf["species"] \o "] "
        \o "download genome annotation from " \o "FlyBase@NCBI"

\* The connectors download_gff3 can be called on: those construction returns.
DlInit ==
    /\ config \in {c \in Configs : InitRaises(c) = ""}
    /\ db = "ready"
    /\ raised = ""
    /\ call = NoCall
    /\ DlIdle
    /\ FastaIdle
    /\ FmtIdle

\* mkdir -p, the log message, the fixed part of the command, and the
\* evaluation of zip(self.gff3url, self.config['accessions']), which raises
\* KeyError when the configuration has no accessions.
DownloadStart ==
    /\ db = "ready"
    /\ dlpc = "idle"
    /\ \E logstream \in {"stderr", "None"} :
        logged' = IF logstream # "None" THEN <<DownloadMessage(config)>>
                  ELSE <<>>
    /\ command' = GtCommand
    /\ IF "accessions" \in DOMAIN config
       THEN dlpc' = "loop" /\ raised' = ""
       ELSE dlpc' = "failed" /\ raised' = "KeyError"
    /\ UNCHANGED <<config, db, call, downloaded, merged, fastaVars, fmtVars>>

\* the loop has run n times and stops one pair early
ZipExhaustedEarly(n, accs) == n + 1 >= Len(accs)

\* zip(self.gff3url, self.config['accessions']) has no pair left after n
ZipExhausted(n, accs) == n >= Len(accs)

\* One iteration of the loop: the download of the next accession's file,
\* which returns or raises, and then command.append(tempout).
DownloadOne ==
    /\ dlpc = "loop"
    /\ ~ZipExhausted(Len(downloaded), config["accessions"])
    /\ LET i == Len(downloaded) + 1
           url == gff3url(config)[i]
           acc == config["accessions"][i]
       IN  \E ok \in BOOLEAN :
              IF ok
              THEN /\ downloaded' =
                        Append(downloaded,
                               [url |-> url, acc |-> acc, path |-> TempOut(acc)])
                   /\ command' = Append(command, TempOut(acc))
                   /\ UNCHANGED <<dlpc, raised>>
              ELSE /\ dlpc' = "failed"
                   /\ raised' = "DownloadError"
                   /\ UNCHANGED <<downloaded, command>>
    /\ UNCHANGED <<config, db, call, merged, logged, fastaVars, fmtVars>>

\* proc = subprocess.Popen(command, ...): the merge tool starts.
StartMerge ==
    /\ dlpc = "loop"
    /\ ZipExhausted(Len(downloaded), config["accessions"])
    /\ merged' = command
    /\ dlpc' = "merging"
    /\ UNCHANGED <<config, db, raised, call, command, downloaded, logged,
                   fastaVars, fmtVars>>

\* proc.wait() and the assert on the return code.
FinishMerge ==
    /\ dlpc = "merging"
    /\ \E status \in {0, 1} :
        IF status = 0
        THEN dlpc' = "done" /\ raised' = ""
        ELSE dlpc' = "failed" /\ raised' = "AssertionError"
    /\ UNCHANGED <<config, db, call, command, downloaded, merged, logged,
                   fastaVars, fmtVars>>

DlNext == DownloadStart \/ DownloadOne \/ StartMerge \/ FinishMerge

SpecDownload == DlInit /\ [][DlNext]_vars

(***************************************************************************)
(* Properties of download_gff3                                             *)
(***************************************************************************)
MergeStarted == dlpc = "merging" \/ merged # <<>>

\* the input files the merge tool was given: what follows the fixed part
MergeInputs == SubSeq(merged, Len(GtCommand) + 1, Len(merged))

\* C8: when the merge tool is started every accession's annotation file has
\* been retrieved, and the tool's input files are one temporary file per
\* accession, in the order of the configuration.
C8_MergeAfterDownloads ==
    MergeStarted =>
        LET accs == config["accessions"]
        IN  /\ Len(downloaded) = Len(accs)
            /\ \A i \in 1..Len(accs) :
                /\ downloaded[i].acc = accs[i]
                /\ downloaded[i].url = specbase \o "/" \o accs[i] \o ".gff"
            /\ SubSeq(merged, 1, Len(GtCommand)) = GtCommand
            /\ Len(MergeInputs) = Len(accs)
            /\ \A i \in 1..Len(accs) :
                MergeInputs[i] = dbdir \o "/" \o Basename(accs[i]) \o ".gff.gz"

C8_Witness ==
    /\ dlpc = "done"
    /\ config["accessions"] = <<"CHR_X/NC_004354", "CHR_2/NT_033778">>
    /\ MergeInputs = <<"./Dmel/NC_004354.gff.gz", "./Dmel/NT_033778.gff.gz">>

\* C9: the downloads of two distinct accessions are written to two distinct
\* local paths.
C9_NoCollision ==
    \A i, j \in 1..Len(downloaded) :
        downloaded[i].acc # downloaded[j].acc =>
            downloaded[i].path # downloaded[j].path

(***************************************************************************)
(* format_gff3                                                             *)
(***************************************************************************)
\* self.gff3file of the connector labelled Dmel in the working directory '.'
gff3file == "./Dmel/Dmel.gff3"

\* the names genhub.conf.conf_filter_file can give the temporary file
TempNames == {"/tmp/tmpa1", "/tmp/tmpb2"}

\* the positions at which sep occurs in text
Occurrences(text, sep) == {i \in 1..Len(text) : LitAt(text, i, sep)}

\* str.split(sep)
RECURSIVE Split(_, _)
Split(text, sep) ==
    IF Occurrences(text, sep) = {} THEN <<text>>
    ELSE LET i == CHOOSE k \in Occurrences(text, sep) :
                      \A j \in Occurrences(text, sep) : k <= j
         IN  <<SubSeq(text, 1, i - 1)>>
                 \o Split(SubSeq(text, i + Len(sep), Len(text)), sep)

\* sep.join(parts)
RECURSIVE Join(_, _)
Join(parts, sep) ==
    IF parts = <<>> THEN ""
    ELSE IF Len(parts) = 1 THEN Head(parts)
    ELSE Head(parts) \o sep \o Join(Tail(parts), sep)

\* 'sub' in line
Contains(line, sub) == Occurrences(line, sub) # {}

\* the stages with the tidy pass put before the tRNA repair
CmdsTidyFirst(name) ==
    << "gunzip -c " \o gff3path,
       "grep -vf " \o name,
       "tidygff3",
       "genhub-fix-trna.py",
       "genhub-format-gff3.py --source ncbi_flybase -",
       "gt gff3 -sort -tidy -o " \o gff3file \o " -force" >>

\* cmds, after the six cmds.append calls; name is excludefile.name
Cmds(name) ==
    << "gunzip -c " \o gff3path,
       "grep -vf " \o name,
       "genhub-fix-trna.py",
       "tidygff3",
       "genhub-format-gff3.py --source ncbi_flybase -",
       "gt gff3 -sort -tidy -o " \o gff3file \o " -force" >>

\* What the standard error of the chain can hold.
StderrTexts ==
    { "",
      "warning: seqid has not been previously introduced\n",
      "error: malformed record\n",
      "warning: file does not begin with \"##gff-version\"\nerror: bad strand\n" }

\* The lines of stderr that format_gff3 prints.
Surfaced(stderr) ==
    SelectSeq(Split(stderr, "\n"),
              LAMBDA line :
                  /\ ~Contains(line, "has not been previously introduced")
                  /\ ~Contains(line, "does not begin with \"##gff-version\"")
                  /\ line # "")

\* The exit status the shell reports for a pipeline: that of its last command.
PipelineStatus(statuses) == statuses[Len(statuses)]

\* The connectors format_gff3 is called on; it reads no accession, and the
\* model takes the configurations with at most one.
FmtInit ==
    /\ config \in {c \in Configs :
                      /\ InitRaises(c) = ""
                      /\ "accessions" \in DOMAIN c
                      /\ Len(c["accessions"]) <= 1}
    /\ db = "ready"
    /\ raised = ""
    /\ call = NoCall
    /\ FmtIdle
    /\ DlIdle
    /\ FastaIdle

\* The stages are listed, the filter file is created and the command line is
\* put together; with debug set the command line is printed.
FormatBuild ==
    /\ db = "ready"
    /\ fpc = "idle"
    /\ \E name \in TempNames, debug \in BOOLEAN :
        /\ excludefile' = name
        /\ tmpfiles' = tmpfiles \cup {name}
        /\ commands' = Join(Cmds(name), " | ")
        /\ printed' = IF debug
                      THEN <<"DEBUG: running command: "
                                \o Join(Cmds(name), " | ")>>
                      ELSE <<>>
    /\ fpc' = "built"
    /\ UNCHANGED <<ran, returncode, connVars, fastaVars, dlVars>>

\* subprocess.Popen(commands, shell=True, ...) and proc.communicate(): the
\* shell runs the commands between the '|' signs as one pipeline, each
\* reading what the one before it writes; each exits with a status of its own.
FormatRun ==
    /\ fpc = "built"
    /\ LET stages == Split(commands, " | ")
       IN  \E statuses \in [1..Len(stages) -> {0, 1}] :
              /\ ran' = [i \in 1..Len(stages) |->
                             [cmd |-> stages[i], status |-> statuses[i]]]
              /\ returncode' = PipelineStatus(statuses)
    /\ fpc' = "ran"
    /\ UNCHANGED <<excludefile, tmpfiles, commands, printed, connVars,
                   fastaVars, dlVars>>

\* The lines of stderr are printed, the return code is asserted to be 0, and
\* then the filter file is unlinked.
FormatFinish ==
    /\ fpc = "ran"
    /\ \E stderr \in StderrTexts : printed' = printed \o Surfaced(stderr)
    /\ IF returncode = 0
       THEN /\ tmpfiles' = tmpfiles \ {excludefile}
            /\ fpc' = "done"
            /\ raised' = ""
       ELSE /\ fpc' = "failed"
            /\ raised' = "AssertionError"
            /\ UNCHANGED tmpfiles
    /\ UNCHANGED <<excludefile, commands, ran, returncode, config, db, call,
                   fastaVars, dlVars>>

FmtNext == FormatBuild \/ FormatRun \/ FormatFinish

SpecFormat == FmtInit /\ [][FmtNext]_vars

(***************************************************************************)
(* Properties of format_gff3                                               *)
(***************************************************************************)
FormatFinished == fpc \in {"done", "failed"}

\* C2: once a call of format_gff3 has finished, by returning or by failing,
\* the temporary filter file it created does not exist.
C2_FilterFileRemoved == FormatFinished => excludefile \notin tmpfiles

\* C3: when a stage of the chain exits with a status other than 0, the call
\* of format_gff3 fails.
C3_StageFailureFails ==
    (FormatFinished /\ \E i \in 1..Len(ran) : ran[i].status # 0) =>
        fpc = "failed"

\* C10: the shell runs six stages, in this order: decompress, exclude by the
\* filter file, tRNA repair, tidy, reformat for source ncbi_flybase, final
\* sort and tidy into the canonical file.
C10_FixedStageOrder ==
    fpc \in {"ran", "done", "failed"} =>
        [i \in 1..Len(ran) |-> ran[i].cmd] =
            << "gunzip -c ./Dmel/dmel-5.48-ncbi.gff3.gz",
               "grep -vf " \o excludefile,
               "genhub-fix-trna.py",
               "tidygff3",
               "genhub-format-gff3.py --source ncbi_flybase -",
               "gt gff3 -sort -tidy -o ./Dmel/Dmel.gff3 -force" >>

C10_Witness ==
    /\ fpc = "done"
    /\ Len(ran) = 6
    /\ ran[4].cmd = "tidygff3"
    /\ \A i \in 1..Len(ran) : ran[i].status = 0

(***************************************************************************)
(* Streams of lines                                                        *)
(***************************************************************************)
\* Iterating over a text stream yields its lines, each with its terminator;
\* the last line may have none.
RECURSIVE SplitLines(_)
SplitLines(text) ==
    IF text = "" THEN <<>>
    ELSE LET nl == {i \in 1..Len(text) : CharAt(text, i) = "\n"}
         IN  IF nl = {} THEN <<text>>
             ELSE LET e == CHOOSE i \in nl : \A j \in nl : i <= j
                  IN  <<SubSeq(text, 1, e)>>
                          \o SplitLines(SubSeq(text, e + 1, Len(text)))

\* What a stream holds once the chunks have been written to it.
RECURSIVE Written(_)
Written(chunks) ==
    IF chunks = <<>> THEN "" ELSE Head(chunks) \o Written(Tail(chunks))

\* format_fasta as a whole: every line of the stream, in order.
RECURSIVE FormatFasta(_)
FormatFasta(lines) ==
    IF lines = <<>> THEN <<>>
    ELSE <<FormatLine(Head(lines))>> \o FormatFasta(Tail(lines))

\* The pieces the input streams of the model are made of.
Fragments ==
    {">gi|1|ref|", ">gi|23|gb|", "gi|1|ref", ">", "|", "NC", " X", "\n"}

RECURSIVE Texts(_)
Texts(n) ==
    IF n = 0 THEN {""}
    ELSE LET shorter == Texts(n - 1)
         IN  shorter \cup {t \o f : t \in shorter, f \in Fragments}

InputStreams == {SplitLines(t) : t \in Texts(MaxFrags)}

FastaInit ==
    /\ instream \in InputStreams
    /\ lineno = 1
    /\ outstream = <<>>
    /\ ConnIdle
    /\ DlIdle
    /\ FmtIdle

\* One iteration of "for line in instream".
FormatFastaStep ==
    /\ lineno <= Len(instream)
    /\ outstream' = Append(outstream, FormatLine(instream[lineno]))
    /\ lineno' = lineno + 1
    /\ UNCHANGED <<instream, connVars, dlVars, fmtVars>>

FastaNext == FormatFastaStep

SpecFasta == FastaInit /\ [][FastaNext]_vars

FastaDone == lineno > Len(instream)

(***************************************************************************)
(* Properties of format_fasta                                              *)
(***************************************************************************)
\* the pattern occurs somewhere in the line
HasMatch(line) == \E p \in 1..Len(line) : MatchAt(line, p).found

\* a header line that the pattern matches
IsGiHeader(line) == StartsWith(line, ">") /\ HasMatch(line)

\* the line without its terminator
Chomp(line) ==
    IF Len(line) > 0 /\ CharAt(line, Len(line)) = "\n"
    THEN SubSeq(line, 1, Len(line) - 1) ELSE line

\* the part of the line after the match m
After(line, m) == SubSeq(line, m.last + 1, Len(line))

\* C4 as stated: a header line that the pattern matches from its start is
\* written as '>' followed by the accession (group 2) and nothing else.
C4_HeaderIsAccessionOnly ==
    \A i \in 1..Len(outstream) :
        LET m == MatchAt(instream[i], 1)
        IN  m.found => Chomp(outstream[i]) = ">" \o m.group2

\* C4 as amended: in a header line that the pattern matches from its start,
\* the matched text (through the run of non-whitespace characters after the
\* accession) is replaced by '>' and the accession, and the rest of the line,
\* which is empty or starts with whitespace, is kept as it is when the
\* pattern does not occur in it again; the header
\* '>gi|1|ref|NC| X' is written as '>NC X'.
C4_HeaderKeepsDescription ==
    \A i \in 1..Len(outstream) :
        LET line == instream[i]
            m == MatchAt(line, 1)
        IN  /\ (m.found /\ ~HasMatch(After(line, m))) =>
                /\ outstream[i] = ">" \o m.group2 \o After(line, m)
                /\ After(line, m) = "" \/ IsSpace(CharAt(After(line, m), 1))
                /\ \A j \in 1..Len(m.group2) : CharAt(m.group2, j) # "|"
            /\ Chomp(line) = ">gi|1|ref|NC| X" =>
                Chomp(outstream[i]) = ">NC X"

C4_Witness ==
    /\ FastaDone
    /\ \E i \in 1..Len(outstream) :
        /\ instream[i] = ">gi|1|ref|NC| X"
        /\ outstream[i] = ">NC X"

\* C5: format_fasta is idempotent: formatting what format_fasta wrote writes
\* the same text again.
C5_Idempotent ==
    FastaDone =>
        Written(FormatFasta(SplitLines(Written(outstream)))) = Written(outstream)

C5_Witness ==
    /\ FastaDone
    /\ \E i \in 1..Len(outstream) :
        /\ outstream[i] # instream[i]
        /\ StartsWith(outstream[i], ">gi")

\* C6: one chunk is written per line read, in the order read, the text
\* written holds as many lines as the input, and a line that is no header
\* matching the pattern is written unchanged.
C6_OtherLinesUnchanged ==
    /\ Len(outstream) = lineno - 1
    /\ \A i \in 1..Len(outstream) :
        ~IsGiHeader(instream[i]) => outstream[i] = instream[i]
    /\ FastaDone => SplitLines(Written(outstream)) = outstream

C6_Witness ==
    /\ FastaDone
    /\ \E i, j \in 1..Len(outstream) :
        /\ ~StartsWith(instream[i], ">") /\ HasMatch(instream[i])
        /\ StartsWith(instream[j], ">") /\ ~HasMatch(instream[j])

====
